---- MODULE Spec2Model ----
(***************************************************************************)
(* ErrorBoundary (src/components/common/ErrorBoundary/ErrorBoundary.tsx)   *)
(* as a state machine: the component's state and props, the value returned *)
(* by render(), and the order in which the rendering runtime calls the     *)
(* lifecycle hooks of a class error boundary.                              *)
(***************************************************************************)
EXTENDS Integers, Sequences, FiniteSets

\* ---------------------------------------------------------------- bounds
\* Number of descendant throws explored in one behaviour.
MaxCaptures == 2
\* Number of times the owner re-renders the boundary with new props.
MaxPropChanges == 2

\* ------------------------------------------------------ JavaScript values
\* A value is a tagged record; val is the payload as text.
Val(t, v) == [tag |-> t, val |-> v]
Null == Val("null", "")
Undefined == Val("undefined", "")
Str(s) == Val("string", s)
Err(m) == Val("Error", m)
Elem(n) == Val("element", n)
Fn(n) == Val("function", n)
Info(stack) == Val("ErrorInfo", stack)

\* ToBoolean of a value, as used by `if (x)` and `x && y`.
Truthy(x) ==
    CASE x.tag = "null" -> FALSE
      [] x.tag = "undefined" -> FALSE
      [] x.tag = "string" -> x.val # ""
      [] OTHER -> TRUE

\* x.toString() for the values a descendant throws.
ToString(x) ==
    CASE x.tag = "Error" -> IF x.val = "" THEN "Error" ELSE "Error: " \o x.val
      [] OTHER -> x.val

\* errorInfo?.componentStack rendered as text: nothing when errorInfo is null.
ComponentStackText(info) == IF info.tag = "ErrorInfo" THEN info.val ELSE ""

\* ------------------------------------------------------------ input sets
\* Values a descendant may throw: an Error, or null (`throw null`).
ThrownValues == {Err("X failed"), Null}
\* Component traces the runtime passes to componentDidCatch.
ComponentStacks == {Info("at Routes"), Info("")}
ChildrenValues == {Elem("Routes"), Elem("Other")}
FallbackValues == {Undefined, Elem("Custom"), Str("")}
OnErrorValues == {Undefined, Fn("report")}
PropsValues ==
    [children : ChildrenValues, fallback : FallbackValues, onError : OnErrorValues]

VARIABLES
    state,      \* this.state
    props,      \* this.props
    DEV,        \* import.meta.env.DEV
    pc,         \* where the rendering runtime is in its cycle
    output,     \* the value last returned by render()
    pending,    \* the throw being handled: [error, info], between throw and componentDidCatch
    thrownLog,  \* every descendant throw so far, in order, with props.onError at the time
    thrownProps, \* this.props at the time of the latest descendant throw
    onErrorLog, \* every call of props.onError so far, in order
    resets,     \* number of handleReset calls
    propChanges \* number of prop changes

vars == <<state, props, DEV, pc, output, pending, thrownLog, thrownProps, onErrorLog, resets, propChanges>>

\* ------------------------------------------------------------- the class
\* constructor: this.state
constructor == [hasError |-> FALSE, error |-> Null, errorInfo |-> Null]

\* Mutant of setState: the partial state replaces the state, fields it does
\* not name fall back to their initial values.
setStateReplace(s, partial) ==
    [k \in DOMAIN s |-> IF k \in DOMAIN partial THEN partial[k] ELSE constructor[k]]

\* this.setState(partial) and the merge of getDerivedStateFromError's result:
\* fields named by the partial state are replaced, the rest are kept.
setState(s, partial) ==
    [k \in DOMAIN s |-> IF k \in DOMAIN partial THEN partial[k] ELSE s[k]]

\* Mutant of getDerivedStateFromError: the error is stored, the flag is not set.
getDerivedStateFromErrorNoFlag(error) == [error |-> error]

\* static getDerivedStateFromError(error): the partial state it returns.
getDerivedStateFromError(error) == [hasError |-> TRUE, error |-> error]

\* Mutant of componentDidCatchState: errorInfo is not stored.
componentDidCatchStateErrorOnly(error, errorInfo) == [error |-> error]

\* componentDidCatch: the partial state it passes to setState.
componentDidCatchState(error, errorInfo) == [error |-> error, errorInfo |-> errorInfo]

\* Mutant of componentDidCatchCalls: onError is called before and after setState.
componentDidCatchCallsTwice(p, error, errorInfo) ==
    IF Truthy(p.onError)
    THEN <<[handler |-> p.onError, error |-> error, errorInfo |-> errorInfo],
           [handler |-> p.onError, error |-> error, errorInfo |-> errorInfo]>>
    ELSE <<>>

\* componentDidCatch: the calls of props.onError it makes.
componentDidCatchCalls(p, error, errorInfo) ==
    IF Truthy(p.onError)
    THEN <<[handler |-> p.onError, error |-> error, errorInfo |-> errorInfo]>>
    ELSE <<>>

\* Mutant of handleReset: only the flag is cleared.
handleResetFlagOnly == [hasError |-> FALSE]

\* handleReset: the partial state it passes to setState.
handleReset == [hasError |-> FALSE, error |-> Null, errorInfo |-> Null]

\* What render() returns.  view: which branch; node: the children or the
\* custom fallback returned as is; retry: the Try Again button is present;
\* details: the Error Details panel is present, with its two text parts.
View(v, n, r, d, e, c) ==
    [view |-> v, node |-> n, retry |-> r, details |-> d, errorText |-> e, stackText |-> c]
NotRendered == View("none", Null, FALSE, FALSE, "", "")

\* Mutant of DefaultFallback: the Error Details do not depend on the build flag.
DefaultFallbackAnyBuild(s, dev) ==
    IF Truthy(s.error)
    THEN View("default", Null, TRUE, TRUE, ToString(s.error), ComponentStackText(s.errorInfo))
    ELSE View("default", Null, TRUE, FALSE, "", "")

\* The default fallback UI, with the development-only Error Details.
DefaultFallback(s, dev) ==
    IF dev /\ Truthy(s.error)
    THEN View("default", Null, TRUE, TRUE, ToString(s.error), ComponentStackText(s.errorInfo))
    ELSE View("default", Null, TRUE, FALSE, "", "")

\* Mutant of render: a supplied fallback is returned whether or not an error
\* was captured.
renderFallbackFirst(s, p, dev) ==
    IF s.hasError \/ Truthy(p.fallback)
    THEN IF Truthy(p.fallback)
         THEN View("custom", p.fallback, FALSE, FALSE, "", "")
         ELSE DefaultFallback(s, dev)
    ELSE View("children", p.children, FALSE, FALSE, "", "")

\* Mutant of render: the error branch is taken only for a truthy stored error.
renderIfErrorTruthy(s, p, dev) ==
    IF s.hasError /\ Truthy(s.error)
    THEN IF Truthy(p.fallback)
         THEN View("custom", p.fallback, FALSE, FALSE, "", "")
         ELSE DefaultFallback(s, dev)
    ELSE View("children", p.children, FALSE, FALSE, "", "")

\* Mutant of render: the fallback prop is ignored.
renderIgnoringFallback(s, p, dev) ==
    IF s.hasError
    THEN DefaultFallback(s, dev)
    ELSE View("children", p.children, FALSE, FALSE, "", "")

\* render(): the children, the custom fallback, or the default fallback UI.
render(s, p, dev) ==
    IF s.hasError
    THEN IF Truthy(p.fallback)
         THEN View("custom", p.fallback, FALSE, FALSE, "", "")
         ELSE DefaultFallback(s, dev)
    ELSE View("children", p.children, FALSE, FALSE, "", "")

\* ------------------------------------------------------------------ Init
Init ==
    /\ state = constructor
    /\ props \in PropsValues
    /\ DEV \in BOOLEAN
    /\ pc = "render"
    /\ output = NotRendered
    /\ pending = [error |-> Null, info |-> Null]
    /\ thrownLog = <<>>
    /\ thrownProps = props
    /\ onErrorLog = <<>>
    /\ resets = 0
    /\ propChanges = 0

\* --------------------------------------------------------------- actions
\* The runtime calls render().  A returned fallback is committed; returned
\* children are rendered next.  After the commit of a capture's fallback
\* the runtime calls componentDidCatch.
Render ==
    /\ pc = "render"
    /\ output' = render(state, props, DEV)
    /\ pc' = IF output'.view = "children" THEN "children"
             ELSE IF pending.info # Null THEN "didCatch"
             ELSE "idle"
    /\ UNCHANGED <<state, props, DEV, pending, thrownLog, thrownProps, onErrorLog, resets, propChanges>>

\* The descendants render without throwing; the output is committed.
DescendantsRender ==
    /\ pc = "children"
    /\ pc' = "idle"
    /\ UNCHANGED <<state, props, DEV, output, pending, thrownLog, thrownProps, onErrorLog, resets, propChanges>>

\* A descendant throws during its render.
DescendantThrows ==
    /\ pc = "children"
    /\ Len(thrownLog) < MaxCaptures
    /\ \E e \in ThrownValues, i \in ComponentStacks :
        /\ pending' = [error |-> e, info |-> i]
        /\ thrownLog' = Append(thrownLog, [error |-> e, info |-> i, onError |-> props.onError])
    /\ thrownProps' = props
    /\ pc' = "thrown"
    /\ UNCHANGED <<state, props, DEV, output, onErrorLog, resets, propChanges>>

\* The runtime merges getDerivedStateFromError(error) into the state and
\* renders the boundary again.
GetDerivedStateFromError ==
    /\ pc = "thrown"
    /\ state' = setState(state, getDerivedStateFromError(pending.error))
    /\ pc' = "render"
    /\ UNCHANGED <<props, DEV, output, pending, thrownLog, thrownProps, onErrorLog, resets, propChanges>>

\* componentDidCatch(error, errorInfo).
ComponentDidCatch ==
    /\ pc = "didCatch"
    /\ state' = setState(state, componentDidCatchState(pending.error, pending.info))
    /\ onErrorLog' = onErrorLog \o componentDidCatchCalls(props, pending.error, pending.info)
    /\ pending' = [error |-> Null, info |-> Null]
    /\ pc' = "render"
    /\ UNCHANGED <<props, DEV, output, thrownLog, thrownProps, resets, propChanges>>

\* The Try Again button of the committed output is clicked.
HandleReset ==
    /\ pc = "idle"
    /\ output.retry
    /\ state' = setState(state, handleReset)
    /\ resets' = resets + 1
    /\ pc' = "render"
    /\ UNCHANGED <<props, DEV, output, pending, thrownLog, thrownProps, onErrorLog, propChanges>>

\* The owner renders the boundary with new props.
SetProps ==
    /\ pc = "idle"
    /\ propChanges < MaxPropChanges
    /\ \E p \in PropsValues : p # props /\ props' = p
    /\ propChanges' = propChanges + 1
    /\ pc' = "render"
    /\ UNCHANGED <<state, DEV, output, pending, thrownLog, thrownProps, onErrorLog, resets>>

Next ==
    \/ Render
    \/ DescendantsRender
    \/ DescendantThrows
    \/ GetDerivedStateFromError
    \/ ComponentDidCatch
    \/ HandleReset
    \/ SetProps

Spec == Init /\ [][Next]_vars

\* ---------------------------------------------------------------- claims
\* The latest descendant throw.
LastThrown == thrownLog[Len(thrownLog)]
\* A capture is in progress: a descendant has thrown and componentDidCatch
\* has not yet run.
Capturing == pending.info # Null
\* The output of render() is committed and no capture is in progress.
Settled == pc = "idle"
\* A prop was passed by the owner.
Supplied(x) == x # Undefined
\* A stored value is neither null nor undefined.
NonNull(x) == x # Null /\ x # Undefined
\* The call of onError that a throw leads to, if onError was supplied.
ExpectedCalls(log) ==
    LET sel == SelectSeq(log, LAMBDA t : Supplied(t.onError))
    IN [i \in 1..Len(sel) |->
          [handler |-> sel[i].onError, error |-> sel[i].error, errorInfo |-> sel[i].info]]

\* C1: once a capture has been processed, render returns the fallback and
\* not the children: the supplied `fallback` prop if one was supplied (any
\* supplied value), otherwise the default recovery view.
C1_FallbackAsSupplied ==
    (Settled /\ state.hasError) =>
        IF Supplied(props.fallback)
        THEN output.view = "custom" /\ output.node = props.fallback
        ELSE output.view = "default"

\* C2: a supplied onError is called exactly once per captured failure, with
\* the thrown error and its component trace; the calls made are exactly the
\* captures that happened while onError was supplied, in order; and onError
\* is called by componentDidCatch only (not on retry, not on re-render).
C2_OnErrorOncePerCapture ==
    /\ [](~Capturing => onErrorLog = ExpectedCalls(thrownLog))
    /\ [][onErrorLog' # onErrorLog =>
            /\ pc = "didCatch"
            /\ Len(onErrorLog') = Len(onErrorLog) + 1]_vars
C2_Witness ==
    /\ Settled /\ resets = 1 /\ Len(thrownLog) = 2 /\ Len(onErrorLog) = 2
    /\ onErrorLog[2].error = Null

\* C3: from construction until the first descendant throw, render returns
\* exactly props.children, whatever fallback and onError are.
C3_PassThrough ==
    thrownLog = <<>> =>
        /\ render(state, props, DEV).view = "children"
        /\ render(state, props, DEV).node = props.children
        /\ pc \in {"children", "idle"} =>
              output.view = "children" /\ output.node = props.children
C3_Witness ==
    /\ Settled /\ thrownLog = <<>> /\ propChanges > 0
    /\ Truthy(props.fallback) /\ Truthy(props.onError)
    /\ output.node = props.children /\ props.children # thrownProps.children

\* C4: handleReset returns the state to that of the constructor; when the
\* descendants then render without throwing, the committed output is the
\* children alone and no earlier error data is left in the state.
C4_ResetRestoresInitial ==
    /\ [][resets' # resets => state.hasError /\ state' = constructor]_vars
    /\ []((Settled /\ output.view = "children") =>
            /\ state = constructor
            /\ output.node = props.children
            /\ ~output.retry /\ ~output.details /\ output.errorText = "")
C4_Witness ==
    /\ Settled /\ resets > 0 /\ output.view = "children"
    /\ LastThrown.error = Err("X failed")

\* C5 (as stated): in every reachable state hasError is true iff the stored
\* error record (error with its component trace) is non-null.
C5_HasErrorIffRecord ==
    state.hasError <=> (NonNull(state.error) \/ NonNull(state.errorInfo))
\* C5 (amended): a non-null stored error or errorInfo implies hasError;
\* hasError implies that the stored error is the value last thrown (null
\* when null was thrown), and that errorInfo is the trace of that throw once
\* componentDidCatch has run and null before.
C5_RecordImpliesHasError ==
    /\ (NonNull(state.error) \/ NonNull(state.errorInfo)) => state.hasError
    /\ state.hasError =>
          /\ thrownLog # <<>>
          /\ state.error = LastThrown.error
          /\ state.errorInfo = IF Capturing THEN Null ELSE LastThrown.info
    /\ (~Capturing /\ state.hasError) => NonNull(state.errorInfo)
C5_Witness ==
    /\ state.hasError /\ Capturing /\ pc = "didCatch"
    /\ state.error = Err("X failed") /\ state.errorInfo = Null

\* C6 (as stated): after a capture the diagnostic panel is in the rendered
\* output iff the build flag is development, and then it contains the
\* string form of the captured exception.
C6_PanelIffDev ==
    (state.hasError /\ pc \in {"didCatch", "idle"}) =>
        /\ output.details <=> DEV
        /\ DEV => output.errorText = ToString(LastThrown.error)
\* C6 (amended): after a capture the panel is in the rendered output iff the
\* flag is development, render took the default-view branch (the fallback
\* prop is falsy) and the stored error is truthy; it then contains the
\* string form of the thrown value and, once componentDidCatch has run, the
\* component trace.  Under the production flag there is no panel and no
\* error text.
C6_PanelIffDevDefaultTruthy ==
    (state.hasError /\ pc \in {"didCatch", "idle"}) =>
        /\ output.details <=>
              (DEV /\ ~Truthy(props.fallback) /\ Truthy(LastThrown.error))
        /\ output.details =>
              /\ output.errorText = "Error: X failed"
              /\ output.stackText = IF Capturing THEN "" ELSE LastThrown.info.val
        /\ ~output.details => output.errorText = "" /\ output.stackText = ""
        /\ ~DEV => ~output.details
C6_Witness ==
    /\ Settled /\ state.hasError /\ DEV /\ output.details
    /\ output.errorText = "Error: X failed" /\ output.stackText = "at Routes"

\* C7: once a failure is captured the boundary stays in the error variant
\* and keeps rendering the fallback across re-renders and prop changes;
\* only handleReset (the retry of the default view) takes it back to the
\* no-error variant, and no throw happens while it is in the error variant.
C7_StickyUntilReset ==
    /\ [][(state.hasError /\ ~state'.hasError) =>
            (resets' = resets + 1 /\ pc = "idle" /\ output.retry)]_vars
    /\ [][(state.hasError /\ resets' = resets) =>
            (state'.hasError /\ thrownLog' = thrownLog)]_vars
    /\ []((state.hasError /\ pc \in {"didCatch", "idle"}) =>
            output.view \in {"custom", "default"})
C7_Witness ==
    /\ Settled /\ state.hasError /\ resets = 0 /\ propChanges = MaxPropChanges
    /\ props.children # thrownProps.children
    /\ output.view = "custom"

\* C8: the state is changed only by getDerivedStateFromError,
\* componentDidCatch and handleReset; render leaves it unchanged;
\* getDerivedStateFromError leaves errorInfo unchanged, componentDidCatch
\* leaves hasError unchanged, and the state after componentDidCatch does not
\* depend on whether onError was called.
C8_Frame ==
    [][/\ state' # state => (pc \in {"thrown", "didCatch"} \/ resets' # resets)
       /\ pc = "render" => state' = state
       /\ pc = "thrown" => state'.errorInfo = state.errorInfo
       /\ pc = "didCatch" =>
            state' = [hasError |-> state.hasError,
                      error |-> pending.error, errorInfo |-> pending.info]]_vars
C8_Witness ==
    /\ pc = "render" /\ ~Capturing /\ state.hasError
    /\ onErrorLog # <<>> /\ state.errorInfo = Info("at Routes")

\* C9: a retry while the descendant still throws leads to a fresh capture:
\* the stored error and errorInfo are those of the new throw, onError is
\* called once more with them, the fallback is shown again, and there is at
\* most one capture per retry (beyond the first).
C9_RetryRecaptures ==
    /\ Len(thrownLog) <= resets + 1
    /\ (Settled /\ state.hasError) =>
          /\ state.error = LastThrown.error
          /\ state.errorInfo = LastThrown.info
          /\ output.view # "children"
          /\ Supplied(LastThrown.onError) =>
                /\ onErrorLog # <<>>
                /\ onErrorLog[Len(onErrorLog)].error = LastThrown.error
                /\ onErrorLog[Len(onErrorLog)].errorInfo = LastThrown.info
C9_Witness ==
    /\ Settled /\ state.hasError /\ resets = 1 /\ Len(thrownLog) = 2
    /\ thrownLog[1].error # thrownLog[2].error
    /\ thrownLog[1].info # thrownLog[2].info
    /\ state.error = thrownLog[2].error
    /\ Len(onErrorLog) = 2

\* C10 (as stated): a failure captured while a custom fallback is supplied
\* is absorbing: the instance never returns to the no-error variant.
C10_CustomFallbackAbsorbing ==
    (thrownLog # <<>> /\ Truthy(thrownProps.fallback) /\ pc # "thrown") =>
        state.hasError
\* C10 (amended): handleReset is invoked only from the default recovery
\* view; while a failure is captured and the fallback prop is truthy, render
\* returns that fallback without a retry action and the state stays in the
\* error variant, so the children are not rendered for as long as the
\* fallback prop stays truthy.
C10_NoRetryWhileCustomFallback ==
    /\ [][resets' # resets =>
            (output.view = "default" /\ ~Truthy(props.fallback))]_vars
    /\ [][(state.hasError /\ Truthy(props.fallback)) => state'.hasError]_vars
    /\ []((state.hasError /\ Truthy(props.fallback) /\ pc \in {"didCatch", "idle"}) =>
            /\ output.view = "custom" /\ output.node = props.fallback
            /\ ~output.retry)
C10_Witness ==
    /\ Settled /\ state.hasError /\ Truthy(props.fallback)
    /\ propChanges > 0 /\ props.fallback = thrownProps.fallback
    /\ props.onError # thrownProps.onError
    /\ output.view = "custom"

====
